---- MODULE Spec2Model ----
(***************************************************************************)
(* Wake-word listeners of mc-home (voice/wake_word): the bridge            *)
(* (wake_word_bridge.py) and the two standalone listeners                  *)
(* (oww_listener.py, porcupine_listener.py).                               *)
(*                                                                         *)
(* One process is modelled: its command line and environment, the main()   *)
(* of the script that was started, the engine / audio set-up, the          *)
(* read-predict loop, and the signal-driven shutdown closure.  Python      *)
(* runs a signal handler in the main thread between two statements, on top *)
(* of whatever was running (the main loop, or a handler that is already    *)
(* running), so the handler invocations form a stack.  No statement of the *)
(* three scripts catches an exception: a raise anywhere ends the process   *)
(* with status 1, and sys.exit(0) anywhere ends it with status 0.          *)
(***************************************************************************)
EXTENDS Integers, Sequences, FiniteSets, TLC

\* ------------------------------------------------------------------ bounds
MaxFrames == 2      \* frames the audio device delivers before it stalls
MaxSignals == 2     \* termination signals sent to the process
MaxScore == 2       \* engine scores and thresholds are the levels 0..MaxScore
TicksPerSecond == 2 \* the clock is read in ticks of 1 / TicksPerSecond seconds

\* --------------------------------------------------------------- constants
NoVal == "<none>"                 \* Python None: flag absent, variable unset
None == << >>                     \* an optional number that is absent
Some(x) == << x >>

Programs == {"bridge", "oww_listener", "porcupine_listener"}
Signals == {"SIGINT", "SIGTERM"}
Words == {"claudette", "alexa"}
Scores == 0 .. MaxScore

DefaultPpn == "models/claudette_linux.ppn"
DefaultTflite == "models/claudette.tflite"
\* openWakeWord resolves a model argument that is no file on disk as the name
\* of one of its bundled models; "alexa" is such a name.
Pretrained == {"alexa"}

\* 0.5 on the scale 0..MaxScore (level 1 of 0, 1, 2 = 0.0, 0.5, 1.0)
DefaultThreshold == 1

StatsPeriod == 60                 \* "int(elapsed) % 60"
SecondsPerHour == 3600            \* "elapsed / 3600"

VARIABLES
    program,      \* the script that was started
    argv,         \* command-line flags: [backend, model, access_key, threshold]
    environ,      \* environment: [backend, model, access_key, threshold]
    fs,           \* the paths that exist on disk
    vocab,        \* the words the neural model on disk scores, in order
    args,         \* the argparse namespace after parse_args()
    running,      \* the backend whose run_* / listen() was entered ("none" before)
    pc,           \* position of the main program
    hstack,       \* the running shutdown() invocations, innermost last
    handlers,     \* the signals whose handler is shutdown
    pendingSig,   \* signals that arrived and whose handler did not start yet
    isTripped,    \* the interpreter was told to run handlers before the next statement
    nsignals,     \* signals sent so far
    engine,       \* "none" | "open" | "released"
    pa,           \* "none" | "open" | "terminated"
    stream,       \* "none" | "open" | "closed"
    calls,        \* invocation counts of the acquire / release methods
    out,          \* what was written to standard output, one entry per write
    exitCode,     \* {} while the process runs, {status} once it ended
    frame,        \* frames read so far
    preds,        \* what the engine returned for the current frame
    itemIdx,      \* index in preds of the item the for loop is at
    detection_count,
    stalls,       \* the times, in ticks, one stream.read can take
    now,          \* ticks on the clock since start_time (standalone listeners)
    lastRead,     \* how the latest stream.read went ("none" before the first)
    indices       \* what porcupine.process returned, one entry per frame

vars == << program, argv, environ, fs, vocab, args, running, pc, hstack, handlers,
           pendingSig, isTripped, nsignals, engine, pa, stream, calls, out,
           exitCode, frame, preds, itemIdx, detection_count, stalls, now,
           lastRead, indices >>

cfgVars == << program, argv, environ, fs, vocab, stalls >>
sigVars == << hstack, handlers, pendingSig, isTripped, nsignals >>
resVars == << engine, pa, stream, calls >>
loopVars == << frame, preds, itemIdx, detection_count, now, lastRead, indices >>

\* ----------------------------------------------------------------- helpers
Alive == exitCode = {}
Truthy(v) == v \notin {NoVal, ""}         \* Python truth of an optional string
Bump(c, k) == [c EXCEPT ![k] = @ + 1]

Structured == program = "bridge"

\* one entry of out: an event rendered as JSON (bridge) or as text (standalone)
Event(type, backend, word, score, frm) ==
    [type |-> type, backend |-> backend, word |-> word, score |-> score,
     frame |-> frm, part |-> "event"]

\* (mutant) an unbuffered stdout: the text and the newline are two writes
print_unbuffered(event) ==
    << [event EXCEPT !.part = "text"], [event EXCEPT !.part = "newline"] >>

\* what print(...) hands to the operating system: the text and its newline
\* are collected in the stdout buffer and written, by flush=True, as one line
print(event) == << [event EXCEPT !.part = "line"] >>

Raise == exitCode' = {1}                  \* an exception nothing catches
SysExit(status) == exitCode' = {status}

\* ------------------------------------------------------- argument parsing
FlagOr(flag, default) == IF flag # NoVal THEN flag ELSE default
EnvGet(value, fallback) == IF value # NoVal THEN value ELSE fallback
OptOr(flag, default) == IF flag # None THEN flag ELSE default

BlankNamespace ==
    [backend |-> NoVal, model |-> NoVal, access_key |-> NoVal, threshold |-> None]

\* argparse checks a value given on the command line against choices=...;
\* a default (here: the environment's value) is taken as it is
BackendChoices == {"porcupine", "oww"}
FlagRejected == program = "bridge" /\ argv.backend \notin BackendChoices \cup {NoVal}

BridgeNamespace ==
    [backend    |-> FlagOr(argv.backend, EnvGet(environ.backend, "porcupine")),
     model      |-> FlagOr(argv.model, EnvGet(environ.model, NoVal)),
     threshold  |-> OptOr(argv.threshold, OptOr(environ.threshold, Some(DefaultThreshold))),
     access_key |-> FlagOr(argv.access_key, EnvGet(environ.access_key, NoVal))]

OwwNamespace ==
    [backend    |-> NoVal,
     model      |-> FlagOr(argv.model, DefaultTflite),
     threshold  |-> OptOr(argv.threshold, Some(DefaultThreshold)),
     access_key |-> NoVal]

PorcupineNamespace ==
    [backend    |-> NoVal,
     model      |-> FlagOr(argv.model, DefaultPpn),
     threshold  |-> OptOr(argv.threshold, Some(DefaultThreshold)),
     access_key |-> FlagOr(argv.access_key, EnvGet(environ.access_key, NoVal))]

MainStep(at) == Alive /\ hstack = << >> /\ ~isTripped /\ pc = at

\* parser.parse_args()
ParseArgs ==
    /\ MainStep("parse_args")
    /\ IF FlagRejected
         THEN /\ SysExit(2)
              /\ UNCHANGED << args, pc >>
         ELSE /\ args' = CASE program = "bridge" -> BridgeNamespace
                           [] program = "oww_listener" -> OwwNamespace
                           [] OTHER -> PorcupineNamespace
              /\ pc' = CASE program = "bridge" -> "default_model"
                         [] program = "oww_listener" -> "check_model"
                         [] OTHER -> "check_key"
              /\ UNCHANGED exitCode
    /\ UNCHANGED << cfgVars, sigVars, resVars, loopVars, running, out >>

\* bridge: "Default model paths by backend"
DefaultModelPath(backend) == IF backend = "porcupine" THEN DefaultPpn ELSE DefaultTflite

DefaultModel ==
    /\ MainStep("default_model")
    /\ args' = IF ~Truthy(args.model)
                 THEN [args EXCEPT !.model = DefaultModelPath(args.backend)]
                 ELSE args
    /\ pc' = "dispatch"
    /\ UNCHANGED << cfgVars, sigVars, resVars, loopVars, running, out, exitCode >>

\* (mutant) the access key is not looked at
KeyMissing_unchecked == FALSE

KeyMissing == ~Truthy(args.access_key)
ModelMissing == args.model \notin fs

\* bridge: the branch on args.backend that calls run_porcupine or run_oww
Dispatch ==
    /\ MainStep("dispatch")
    /\ IF args.backend = "porcupine"
         THEN IF KeyMissing
                THEN /\ out' = out \o print(Event("error", NoVal, NoVal, None, 0))
                     /\ SysExit(1)
                     /\ UNCHANGED << running, pc >>
                ELSE /\ running' = "porcupine"
                     /\ pc' = "create_engine"
                     /\ UNCHANGED << out, exitCode >>
         ELSE /\ running' = "oww"
              /\ pc' = "create_engine"
              /\ UNCHANGED << out, exitCode >>
    /\ UNCHANGED << cfgVars, sigVars, resVars, loopVars, args >>

\* porcupine_listener: "if not args.access_key"
CheckKey ==
    /\ MainStep("check_key")
    /\ IF KeyMissing
         THEN /\ out' = out \o print(Event("error", NoVal, NoVal, None, 0))
              /\ SysExit(1)
              /\ UNCHANGED pc
         ELSE /\ pc' = "check_model"
              /\ UNCHANGED << out, exitCode >>
    /\ UNCHANGED << cfgVars, sigVars, resVars, loopVars, args, running >>

\* standalone listeners: "if not os.path.exists(args.model)", then listen(...)
CheckModel ==
    /\ MainStep("check_model")
    /\ IF ModelMissing
         THEN /\ out' = out \o print(Event("error", NoVal, NoVal, None, 0))
              /\ SysExit(1)
              /\ UNCHANGED << running, pc >>
         ELSE /\ running' = IF program = "oww_listener" THEN "oww" ELSE "porcupine"
              /\ pc' = "create_engine"
              /\ UNCHANGED << out, exitCode >>
    /\ UNCHANGED << cfgVars, sigVars, resVars, loopVars, args >>

\* ------------------------------------------------- engine and audio set-up
Threshold == args.threshold[1]

\* pvporcupine.create(...) / Model(wakeword_models=[model_path]).
\* The keyword engine refuses an empty access key and a keyword file that is
\* not on disk; the neural engine loads the file, or the bundled model of
\* that name when there is no such file.  libraryOk: the engine accepted what
\* it loaded (a valid key, a readable model).
EngineLoads(libraryOk) ==
    IF running = "porcupine"
      THEN Truthy(args.access_key) /\ args.model \in fs /\ libraryOk
      ELSE \/ args.model \in fs /\ libraryOk
           \/ args.model \notin fs /\ args.model \in Pretrained

CreateEngine ==
    /\ MainStep("create_engine")
    /\ \E refused \in BOOLEAN :
         IF EngineLoads(~refused)
           THEN /\ engine' = "open"
                /\ pc' = "create_pa"
                /\ UNCHANGED exitCode
           ELSE /\ Raise
                /\ UNCHANGED << engine, pc >>
    /\ calls' = Bump(calls, "create")
    /\ UNCHANGED << cfgVars, sigVars, loopVars, args, running, out, pa, stream >>

\* pa = pyaudio.PyAudio()
CreatePA ==
    /\ MainStep("create_pa")
    /\ \E raises \in BOOLEAN :
         IF raises
           THEN /\ Raise
                /\ UNCHANGED << pa, pc >>
           ELSE /\ pa' = "open"
                /\ pc' = "open_stream"
                /\ UNCHANGED exitCode
    /\ calls' = Bump(calls, "PyAudio")
    /\ UNCHANGED << cfgVars, sigVars, loopVars, args, running, out, engine, stream >>

\* stream = pa.open(...)
OpenStream ==
    /\ MainStep("open_stream")
    /\ \E raises \in BOOLEAN :
         IF raises
           THEN /\ Raise
                /\ UNCHANGED << stream, pc >>
           ELSE /\ stream' = "open"
                /\ pc' = "emit_started"
                /\ UNCHANGED exitCode
    /\ calls' = Bump(calls, "open")
    /\ UNCHANGED << cfgVars, sigVars, loopVars, args, running, out, engine, pa >>

\* emit_event("listener_started", ...); the standalone listeners print their
\* "listening for wake word" banner here
EmitStarted ==
    /\ MainStep("emit_started")
    /\ out' = out \o print(Event("listener_started", running, NoVal, None, 0))
    /\ pc' = "install_sigint"
    /\ UNCHANGED << cfgVars, sigVars, resVars, loopVars, args, running, exitCode >>

\* signal.signal(signal.SIGINT, shutdown)
InstallSigint ==
    /\ MainStep("install_sigint")
    /\ handlers' = handlers \cup {"SIGINT"}
    /\ pc' = "install_sigterm"
    /\ UNCHANGED << cfgVars, resVars, loopVars, args, running, out, exitCode,
                    hstack, pendingSig, isTripped, nsignals >>

\* signal.signal(signal.SIGTERM, shutdown)
InstallSigterm ==
    /\ MainStep("install_sigterm")
    /\ handlers' = handlers \cup {"SIGTERM"}
    /\ pc' = "read"
    /\ UNCHANGED << cfgVars, resVars, loopVars, args, running, out, exitCode,
                    hstack, pendingSig, isTripped, nsignals >>

\* ------------------------------------------------------ read / predict loop
\* stream.read(n, exception_on_overflow=False): a frame, also when the device
\* overflowed; any other failure of the device raises
ReadOutcomes == {"frame", "overflow", "error"}

\* (mutant) a failed read is answered by opening the device again
ReadFails_reopen ==
    /\ pc' = "open_stream"
    /\ UNCHANGED << frame, exitCode >>

\* the loop has no try / except: what stream.read raises ends the process
ReadFails ==
    /\ Raise
    /\ UNCHANGED << frame, pc >>

\* (mutant) exception_on_overflow left at its default: an overflow raises
ReadRaises_overflow(outcome) == outcome # "frame"

\* exception_on_overflow=False: only a failure other than an overflow raises
ReadRaises(outcome) == outcome = "error"

\* the read blocks until the device has a frame; the standalone listeners
\* took start_time before the loop and see the clock move meanwhile
Read ==
    /\ MainStep("read")
    /\ frame < MaxFrames
    /\ \E outcome \in ReadOutcomes :
         /\ lastRead' = outcome
         /\ IF ReadRaises(outcome)
              THEN ReadFails /\ UNCHANGED now
              ELSE /\ frame' = frame + 1
                   /\ pc' = "process"
                   /\ \E d \in stalls : now' = IF Structured THEN now ELSE now + d
                   /\ UNCHANGED exitCode
    /\ UNCHANGED << cfgVars, sigVars, resVars, args, running, out,
                    preds, itemIdx, detection_count, indices >>

Item(word, score) == [word |-> word, score |-> score]

\* porcupine.process(pcm): -1, or the index of the keyword heard (one keyword)
KeywordResults == {<< Item("claudette", r) >> : r \in {-1, 0}}

\* oww_model.predict(audio_np): a dict with one score for each word of the
\* loaded model, in the order of the model's words
PredictResults ==
    {[i \in 1 .. Len(vocab) |-> Item(vocab[i], f[i])] : f \in [1 .. Len(vocab) -> Scores]}

\* (mutant) the keyword of index 0 is not taken as heard
Matched_positive(result) == result > 0

\* "if porcupine.process(pcm) >= 0" / "if result >= 0"
Matched(result) == result >= 0

\* (mutant) the boundary score is left out
Passes_strict(score, threshold) == score > threshold

\* "if score >= threshold"
Passes(score, threshold) == score >= threshold

\* the engine call of one iteration; an engine failure raises
Process ==
    /\ MainStep("process")
    /\ \/ /\ Raise
          /\ UNCHANGED << preds, itemIdx, pc, indices >>
       \/ /\ \E r \in IF running = "porcupine" THEN KeywordResults ELSE PredictResults :
               /\ preds' = r
               /\ indices' = IF running = "porcupine"
                               THEN Append(indices, r[1].score) ELSE indices
          /\ itemIdx' = 1
          /\ pc' = "for"
          /\ UNCHANGED exitCode
    /\ UNCHANGED << cfgVars, sigVars, resVars, args, running, out, frame,
                    detection_count, now, lastRead >>

\* one turn of "for word, score in ...items()" (oww), or the one test of the
\* keyword index (porcupine): the item is skipped, or on_detection /
\* on_wake_word_detected is called for it; the standalone listeners count it
\* before the call
Forwarded(item) ==
    IF running = "porcupine" THEN Matched(item.score)
                             ELSE Passes(item.score, Threshold)

\* (mutant) the detection is forwarded and not counted
CountAfterDetection_same(n) == n

\* "detection_count += 1"
CountAfterDetection(n) == n + 1

\* after the last item the bridge reads the next frame; the standalone
\* listeners first come to the stats test that ends their iteration
ForItem ==
    /\ MainStep("for")
    /\ IF itemIdx > Len(preds)
         THEN /\ pc' = IF Structured THEN "read" ELSE "stats"
              /\ UNCHANGED << itemIdx, detection_count >>
         ELSE IF Forwarded(preds[itemIdx])
                THEN /\ pc' = "emit_detected"
                     /\ detection_count' =
                          IF Structured THEN detection_count
                                        ELSE CountAfterDetection(detection_count)
                     /\ UNCHANGED itemIdx
                ELSE /\ itemIdx' = itemIdx + 1
                     /\ UNCHANGED << pc, detection_count >>
    /\ UNCHANGED << cfgVars, sigVars, resVars, args, running, out, exitCode,
                    frame, preds, now, lastRead, indices >>

\* on_detection(backend, word, score) -> emit_event("wake_word_detected", ...);
\* the keyword backend reports the word "claudette" and no score
Detection(item) ==
    IF running = "porcupine"
      THEN Event("wake_word_detected", running,
                 IF Structured THEN "claudette" ELSE NoVal, None, frame)
      ELSE Event("wake_word_detected", running, item.word, Some(item.score), frame)

\* (mutant) a listener that is done once it has heard the wake word
Continue_break ==
    /\ SysExit(0)
    /\ UNCHANGED pc

\* on_detection / on_wake_word_detected returns and the loop goes on
Continue ==
    /\ pc' = "for"
    /\ UNCHANGED exitCode

EmitDetected ==
    /\ MainStep("emit_detected")
    /\ out' = out \o print(Detection(preds[itemIdx]))
    /\ itemIdx' = itemIdx + 1
    /\ Continue
    /\ UNCHANGED << cfgVars, sigVars, resVars, args, running,
                    frame, preds, detection_count, now, lastRead, indices >>

\* ------------------------------------------- stats (standalone listeners)
\* int(elapsed): the whole seconds in e ticks
Seconds(e) == e \div TicksPerSecond

\* "if int(elapsed) % 60 == 0 and int(elapsed) > 0"
StatsDue(e) == Seconds(e) % StatsPeriod = 0 /\ Seconds(e) > 0

\* "rate = detection_count / (elapsed / 3600)" as the fraction
\* << numerator, denominator >> = count * 3600 * TicksPerSecond / e
Rate(count, e) == << count * SecondsPerHour * TicksPerSecond, e >>

\* the [STATS] line: minutes, detections, rate
StatsLine(count, e) ==
    [type |-> "stats", backend |-> running, word |-> NoVal, score |-> None,
     frame |-> frame, part |-> "event", count |-> count, elapsed |-> e,
     rate |-> Rate(count, e)]

\* the end of one iteration of a standalone listener: elapsed is read from
\* the clock and, when the test passes, the rate is computed (a division by
\* elapsed / 3600, ZeroDivisionError when that is 0) and the line is printed
Stats ==
    /\ MainStep("stats")
    /\ IF StatsDue(now)
         THEN IF now = 0
                THEN Raise /\ UNCHANGED << out, pc >>
                ELSE /\ out' = out \o print(StatsLine(detection_count, now))
                     /\ pc' = "read"
                     /\ UNCHANGED exitCode
         ELSE /\ pc' = "read"
              /\ UNCHANGED << out, exitCode >>
    /\ UNCHANGED << cfgVars, sigVars, resVars, loopVars, args, running >>

\* ------------------------------------------------------------ the signals
\* A signal whose handler is shutdown is noted, and the interpreter runs the
\* handler before the next statement.  Before the handlers are installed
\* SIGTERM ends the process at once and SIGINT raises KeyboardInterrupt.
DefaultStatus(sig) == IF sig = "SIGINT" THEN 130 ELSE 143

SignalArrives(sig) ==
    /\ Alive
    /\ nsignals < MaxSignals
    /\ nsignals' = nsignals + 1
    /\ IF sig \in handlers
         THEN /\ pendingSig' = pendingSig \cup {sig}
              /\ isTripped' = TRUE
              /\ UNCHANGED exitCode
         ELSE /\ SysExit(DefaultStatus(sig))
              /\ UNCHANGED << pendingSig, isTripped >>
    /\ UNCHANGED << cfgVars, resVars, loopVars, args, running, pc, out,
                    hstack, handlers >>

\* the steps of shutdown(sig, frame), in order
ShutdownSteps ==
    (IF Structured THEN << >> ELSE << "print" >>)
      \o << "close", "terminate" >>
      \o (IF running = "porcupine" THEN << "delete" >> ELSE << >>)
      \o (IF Structured THEN << "emit" >> ELSE << >>)
      \o << "exit" >>

StepAfter(step) ==
    LET i == CHOOSE k \in 1 .. Len(ShutdownSteps) : ShutdownSteps[k] = step
    IN  ShutdownSteps[i + 1]

\* the interpreter calls the handler of the lowest pending signal; the call
\* never returns (shutdown ends in sys.exit), so another pending signal waits
\* until a further signal arrives
FirstPending == IF "SIGINT" \in pendingSig THEN "SIGINT" ELSE "SIGTERM"

HandlerEnter ==
    /\ Alive
    /\ isTripped
    /\ pendingSig # {}
    /\ pendingSig' = pendingSig \ {FirstPending}
    /\ isTripped' = FALSE
    /\ hstack' = Append(hstack, ShutdownSteps[1])
    /\ UNCHANGED << cfgVars, resVars, loopVars, args, running, pc, out,
                    exitCode, handlers, nsignals >>

HandlerStep(at) ==
    Alive /\ ~isTripped /\ hstack # << >> /\ hstack[Len(hstack)] = at

Advance == hstack' = [hstack EXCEPT ![Len(hstack)] = StepAfter(@)]

\* standalone: print("\nShutting down...")
ShutdownPrint ==
    /\ HandlerStep("print")
    /\ out' = out \o print(Event("shutting_down", running, NoVal, None, frame))
    /\ Advance
    /\ UNCHANGED << cfgVars, resVars, loopVars, args, running, pc, exitCode,
                    handlers, pendingSig, isTripped, nsignals >>

\* stream.close()
ShutdownClose ==
    /\ HandlerStep("close")
    /\ calls' = Bump(calls, "close")
    /\ \E raises \in BOOLEAN :
         IF raises
           THEN /\ Raise
                /\ UNCHANGED << stream, hstack >>
           ELSE /\ stream' = "closed"
                /\ Advance
                /\ UNCHANGED exitCode
    /\ UNCHANGED << cfgVars, loopVars, args, running, pc, out, engine, pa,
                    handlers, pendingSig, isTripped, nsignals >>

\* pa.terminate()
ShutdownTerminate ==
    /\ HandlerStep("terminate")
    /\ calls' = Bump(calls, "terminate")
    /\ \E raises \in BOOLEAN :
         IF raises
           THEN /\ Raise
                /\ UNCHANGED << pa, hstack >>
           ELSE /\ pa' = "terminated"
                /\ Advance
                /\ UNCHANGED exitCode
    /\ UNCHANGED << cfgVars, loopVars, args, running, pc, out, engine, stream,
                    handlers, pendingSig, isTripped, nsignals >>

\* porcupine.delete()
ShutdownDelete ==
    /\ HandlerStep("delete")
    /\ calls' = Bump(calls, "delete")
    /\ \E raises \in BOOLEAN :
         IF raises
           THEN /\ Raise
                /\ UNCHANGED << engine, hstack >>
           ELSE /\ engine' = "released"
                /\ Advance
                /\ UNCHANGED exitCode
    /\ UNCHANGED << cfgVars, loopVars, args, running, pc, out, pa, stream,
                    handlers, pendingSig, isTripped, nsignals >>

\* emit_event("listener_stopped", {"backend": ...})
ShutdownEmit ==
    /\ HandlerStep("emit")
    /\ out' = out \o print(Event("listener_stopped", running, NoVal, None, frame))
    /\ Advance
    /\ UNCHANGED << cfgVars, resVars, loopVars, args, running, pc, exitCode,
                    handlers, pendingSig, isTripped, nsignals >>

\* sys.exit(0)
ShutdownExit ==
    /\ HandlerStep("exit")
    /\ SysExit(0)
    /\ UNCHANGED << cfgVars, sigVars, resVars, loopVars, args, running, pc, out >>

\* ------------------------------------------------------- the specifications
NoCalls == [create |-> 0, PyAudio |-> 0, open |-> 0,
            close |-> 0, terminate |-> 0, delete |-> 0]

Started ==
    /\ args = BlankNamespace
    /\ running = "none"
    /\ pc = "parse_args"
    /\ hstack = << >>
    /\ handlers = {}
    /\ pendingSig = {}
    /\ isTripped = FALSE
    /\ nsignals = 0
    /\ engine = "none"
    /\ pa = "none"
    /\ stream = "none"
    /\ calls = NoCalls
    /\ out = << >>
    /\ exitCode = {}
    /\ frame = 0
    /\ preds = << >>
    /\ itemIdx = 1
    /\ detection_count = 0
    /\ now = 0
    /\ lastRead = "none"
    /\ indices = << >>

Namespace(B, M, K, T) == [backend : B, model : M, access_key : K, threshold : T]

ModelFiles == {DefaultPpn, DefaultTflite, "cli.model", "env.model"}

\* Spec: every run followed to its end, signals included.  The flags alone
\* choose the backend, the model and the key; the model has one word; the
\* device delivers its few frames within the first tick of the clock.
Init ==
    /\ program \in Programs
    /\ argv \in Namespace(IF program = "bridge" THEN {NoVal, "oww"} ELSE {NoVal},
                          {NoVal, "alexa"},
                          IF program = "oww_listener" THEN {NoVal} ELSE {NoVal, "", "key"},
                          {None, Some(MaxScore)})
    /\ environ = BlankNamespace
    /\ fs \in {{}, ModelFiles}
    /\ vocab = << "claudette" >>
    /\ stalls = {0}
    /\ Started

\* SpecLoop: the runs in which no signal arrives, with every threshold and
\* with models of one and of two words
InitLoop ==
    /\ program \in Programs
    /\ argv \in Namespace(IF program = "bridge" THEN {NoVal, "oww"} ELSE {NoVal},
                          {NoVal},
                          IF program = "oww_listener" THEN {NoVal} ELSE {NoVal, "key"},
                          {None} \cup {Some(t) : t \in Scores})
    /\ environ = BlankNamespace
    /\ fs = ModelFiles
    /\ vocab \in {<< "claudette" >>, << "claudette", "alexa" >>}
    /\ stalls = {0}
    /\ Started

\* SpecMain: main() alone, up to its call of run_* / listen, over the flags
\* and the environment
InitMain ==
    /\ program \in Programs
    /\ argv \in Namespace(IF program = "bridge"
                            THEN {NoVal, "porcupine", "oww", "whisper"} ELSE {NoVal},
                          {NoVal, "cli.model"},
                          IF program = "oww_listener" THEN {NoVal} ELSE {NoVal, "key"},
                          {None, Some(0)})
    /\ environ \in Namespace(IF program = "bridge"
                               THEN {NoVal, "porcupine", "oww", "whisper"} ELSE {NoVal},
                             IF program = "bridge" THEN {NoVal, "env.model"} ELSE {NoVal},
                             IF program = "oww_listener" THEN {NoVal} ELSE {NoVal, "", "envkey"},
                             IF program = "bridge" THEN {None, Some(MaxScore)} ELSE {None})
    /\ fs \in {{}, ModelFiles}
    /\ vocab = << "claudette" >>
    /\ stalls = {0}
    /\ Started

\* SpecStats: the standalone listeners with no signal, over reads that take
\* no time, one tick, or about a minute
StallChoices ==
    {0, 1, StatsPeriod * TicksPerSecond - 1, StatsPeriod * TicksPerSecond,
     (StatsPeriod + 1) * TicksPerSecond}

InitStats ==
    /\ program \in {"oww_listener", "porcupine_listener"}
    /\ argv \in Namespace({NoVal}, {NoVal},
                          IF program = "oww_listener" THEN {NoVal} ELSE {NoVal, "key"},
                          {None, Some(0)})
    /\ environ = BlankNamespace
    /\ fs = ModelFiles
    /\ vocab = << "claudette" >>
    /\ stalls = StallChoices
    /\ Started

Main == ParseArgs \/ DefaultModel \/ Dispatch \/ CheckKey \/ CheckModel

Setup == CreateEngine \/ CreatePA \/ OpenStream \/ EmitStarted
           \/ InstallSigint \/ InstallSigterm

Loop == Read \/ Process \/ ForItem \/ EmitDetected \/ Stats

Signal == \E sig \in Signals : SignalArrives(sig)

Shutdown == HandlerEnter \/ ShutdownPrint \/ ShutdownClose \/ ShutdownTerminate
              \/ ShutdownDelete \/ ShutdownEmit \/ ShutdownExit

Next == Main \/ Setup \/ Loop \/ Signal \/ Shutdown

Spec == Init /\ [][Next]_vars

NextLoop == Main \/ Setup \/ Loop

SpecLoop == InitLoop /\ [][NextLoop]_vars

NextStats == ParseArgs \/ CheckKey \/ CheckModel \/ Setup \/ Loop

SpecStats == InitStats /\ [][NextStats]_vars

NextMain == Main

SpecMain == InitMain /\ [][NextMain]_vars

\* ================================================================ claims
InLoop == pc \in {"read", "process", "for", "emit_detected", "stats"}
EventsOf(type) == {k \in DOMAIN out : out[k].type = type}
NStopped == Cardinality(EventsOf("listener_stopped"))
Exited == exitCode # {}
ByShutdown == Exited /\ hstack # << >>      \* the process ended inside shutdown()

\* the wake_word_detected entries for the pair (word, score) of frame f
DetectionsOf(f, item) ==
    {k \in EventsOf("wake_word_detected") :
        /\ out[k].frame = f
        /\ out[k].word = item.word
        /\ out[k].score = Some(item.score)}

\* C1: with the neural engine, each (word, score) pair the engine returned
\* for the current frame and the loop is done with has exactly one
\* wake_word_detected entry when score >= threshold (score = threshold
\* included) and none otherwise; no entry at all carries a score below the
\* threshold.
C1_ThresholdForwarding ==
    (running = "oww" /\ pc \in {"read", "for", "emit_detected"}) =>
        /\ \A i \in 1 .. (itemIdx - 1) :
             i \in DOMAIN preds =>
               Cardinality(DetectionsOf(frame, preds[i])) =
                   IF preds[i].score >= args.threshold[1] THEN 1 ELSE 0
        /\ \A k \in EventsOf("wake_word_detected") :
             out[k].score[1] >= args.threshold[1]

\* C1 witness: a frame of two words is done; the first scored exactly the
\* threshold and was forwarded, the second scored below it and was not.
C1_Witness ==
    /\ running = "oww" /\ pc = "read" /\ frame >= 1
    /\ Len(preds) = 2
    /\ preds[1].score = args.threshold[1]
    /\ preds[2].score < args.threshold[1]
    /\ Cardinality(DetectionsOf(frame, preds[1])) = 1
    /\ Cardinality(DetectionsOf(frame, preds[2])) = 0

\* C2: in the bridge, with either backend, a process that ended after one
\* signal received in the read / predict loop has invoked the AudioSource
\* release (stream.close, pa.terminate) and the DetectionEngine release once
\* each, has then emitted listener_stopped, and has ended with status 0.
C2_SingleSignalShutdown ==
    (Structured /\ Exited /\ InLoop /\ nsignals = 1 /\ hstack # << >>) =>
        /\ calls.close = 1
        /\ calls.terminate = 1
        /\ calls.delete = 1
        /\ NStopped = 1
        /\ out[Len(out)].type = "listener_stopped"
        /\ exitCode = {0}

\* C3: with the keyword engine, when one release call of shutdown() raises,
\* the other resource is still released, once.
C3_ReleaseFailureIsolated ==
    (running = "porcupine" /\ ByShutdown /\ exitCode = {1} /\ Len(hstack) = 1) =>
        /\ hstack[1] \in {"close", "terminate"} => (calls.delete = 1 /\ engine = "released")
        /\ hstack[1] = "delete" => (calls.close = 1 /\ stream = "closed")

\* C4: when the model file is not on disk at startup, no audio stream is
\* opened, no listener_started is emitted, and the process, if no signal ends
\* it first, ends with status 1.
C4_MissingModelExits ==
    (pc \notin {"parse_args", "default_model"} /\ args.model \notin fs) =>
        /\ stream = "none"
        /\ EventsOf("listener_started") = {}
        /\ (Exited /\ nsignals = 0) => exitCode = {1}

\* C5: with the keyword backend and no access key (absent or empty), run_porcupine
\* / listen is never entered, no engine is created, no audio device is opened,
\* listener_started is not emitted, and the process, if no signal ends it
\* first, ends with status 1.
KeywordBackend ==
    \/ program = "porcupine_listener" /\ pc # "parse_args"
    \/ program = "bridge" /\ pc \notin {"parse_args", "default_model"}
                          /\ args.backend = "porcupine"

C5_MissingKeyExits ==
    (KeywordBackend /\ args.access_key \in {NoVal, ""}) =>
        /\ running = "none"
        /\ pc \in {"dispatch", "check_key"}
        /\ calls.create = 0 /\ calls.PyAudio = 0 /\ calls.open = 0
        /\ engine = "none" /\ pa = "none" /\ stream = "none"
        /\ EventsOf("listener_started") = {}
        /\ (Exited /\ nsignals = 0) => exitCode = {1}

\* C5 witness: the bridge, keyword backend, an empty key: ended with status 1
\* after the error line, nothing acquired.
C5_Witness ==
    /\ program = "bridge" /\ args.backend = "porcupine" /\ args.access_key = ""
    /\ exitCode = {1} /\ nsignals = 0
    /\ Len(out) = 1 /\ out[1].type = "error"
    /\ calls = NoCalls

\* C6: a bridge process that ended in the read / predict loop (by shutdown, or by an
\* error of the device or of the engine) has released the stream and the
\* engine.
C6_ReleasedOnEveryExit ==
    (Structured /\ Exited /\ InLoop /\ stream # "none") =>
        (stream = "closed" /\ engine = "released")

C8_OpenedOnce ==
    calls.create <= 1 /\ calls.PyAudio <= 1 /\ calls.open <= 1

\* C8 witness: the loop has read every frame the device delivered, with the
\* engine, PyAudio and the stream open and created once each.
C8_Witness ==
    /\ engine = "open" /\ stream = "open" /\ pa = "open"
    /\ frame = MaxFrames /\ pc = "read"
    /\ calls.create = 1 /\ calls.PyAudio = 1 /\ calls.open = 1

\* C9: the bridge runs the backend named by --backend, else by
\* WAKE_WORD_BACKEND, else porcupine, and that backend is porcupine or oww;
\* the model is --model, else WAKE_WORD_MODEL, else the default path of that
\* backend.
ResolvedBackend == FlagOr(argv.backend, EnvGet(environ.backend, "porcupine"))
ResolvedModel ==
    FlagOr(argv.model,
           EnvGet(environ.model,
                  IF ResolvedBackend = "porcupine" THEN DefaultPpn ELSE DefaultTflite))

C9_Precedence ==
    (program = "bridge" /\ running # "none") =>
        /\ running \in {"porcupine", "oww"}
        /\ running = ResolvedBackend
        /\ args.model = ResolvedModel

\* C10: when a second signal arrives while shutdown() is running, each
\* release method is still invoked once and listener_stopped is emitted once.
C10_ReentrantShutdown ==
    (Structured /\ Len(hstack) >= 2) =>
        /\ calls.close <= 1 /\ calls.terminate <= 1 /\ calls.delete <= 1
        /\ NStopped <= 1
        /\ exitCode = {0} =>
             (calls.close = 1 /\ calls.terminate = 1 /\ NStopped = 1)

\* C11: a bridge process that ended after listener_started was emitted and
\* after a signal arrived (the signal can only have come after the emission:
\* before it no handler is installed and the first signal ends the process)
\* has emitted listener_stopped, has released the stream and the engine, and
\* has ended with status 0.
C11_SignalAfterStarted ==
    (Structured /\ Exited /\ nsignals >= 1 /\ EventsOf("listener_started") # {}) =>
        /\ exitCode = {0}
        /\ NStopped >= 1
        /\ stream = "closed"
        /\ engine = "released"

\* C12: the events of the bridge are in order: listener_started once, after
\* the engine and the stream were opened; every wake_word_detected after it;
\* listener_stopped at most once, and nothing after it.
C12_WellFormedEvents ==
    Structured =>
        /\ Cardinality(EventsOf("listener_started")) <= 1
        /\ EventsOf("listener_started") # {} => (engine # "none" /\ stream # "none")
        /\ \A k \in EventsOf("wake_word_detected") :
             \E j \in EventsOf("listener_started") : j < k
        /\ NStopped <= 1
        /\ \A k \in EventsOf("listener_stopped") : k = Len(out)

\* the wake_word_detected entries printed for frame f
DetectedAt(f) == {k \in EventsOf("wake_word_detected") : out[k].frame = f}

\* the main program is past the test of the keyword index of frame f, and
\* past the print where the test passed
PastFrame(f) ==
    \/ f < frame
    \/ f = frame /\ (pc \in {"read", "stats"} \/ (pc = "for" /\ itemIdx > 1))

\* C13: with the keyword engine, every frame the main program is past has
\* one wake_word_detected entry if the engine returned an index >= 0 for it
\* and none otherwise (so the entry of frame N is there before frame N + 1
\* is read), no entry belongs to a frame the engine did not process, and the
\* entries are in the order of the frames.
C13_OneEventPerMatch ==
    running = "porcupine" =>
        /\ Len(indices) \in {frame - 1, frame}
        /\ \A f \in 1 .. Len(indices) :
             Cardinality(DetectedAt(f)) =
                 IF indices[f] >= 0 /\ PastFrame(f) THEN 1 ELSE 0
        /\ \A k \in EventsOf("wake_word_detected") : out[k].frame \in DOMAIN indices
        /\ \A j, k \in EventsOf("wake_word_detected") :
             j < k => out[j].frame < out[k].frame

\* C13 witness: the engine matched on frame 1 alone; after the last frame
\* there is the one entry of frame 1.
C13_Witness ==
    /\ running = "porcupine" /\ pc \in {"read", "stats"} /\ frame = MaxFrames
    /\ Len(indices) = MaxFrames
    /\ indices[1] = 0
    /\ \A f \in 2 .. MaxFrames : indices[f] = -1
    /\ Cardinality(EventsOf("wake_word_detected")) = 1
    /\ Cardinality(DetectedAt(1)) = 1

\* the step is a stream.read of the main program that overflowed: at the
\* read, outside shutdown, no handler due, no signal arriving in the step
OverflowedRead ==
    /\ pc = "read" /\ hstack = << >> /\ ~isTripped
    /\ nsignals' = nsignals
    /\ lastRead' = "overflow"

\* C14: a stream.read that overflowed leaves the process running, prints
\* nothing, releases nothing, counts as the next frame and hands that frame
\* to the engine call.
C14_OverflowAbsorbed ==
    [][OverflowedRead =>
          /\ exitCode' = {}
          /\ out' = out
          /\ frame' = frame + 1
          /\ pc' = "process"
          /\ << engine, pa, stream, calls >>' = << engine, pa, stream, calls >>]_vars

\* C14 witness: in the bridge the latest read overflowed, its frame went
\* through the engine and was reported, and the loop is back at the read.
C14_Witness ==
    /\ Structured /\ lastRead = "overflow" /\ pc = "read" /\ frame >= 1
    /\ Alive /\ nsignals = 0
    /\ out # << >>
    /\ out[Len(out)].type = "wake_word_detected"
    /\ out[Len(out)].frame = frame
    /\ EventsOf("error") = {}
    /\ NStopped = 0

\* C15: a process that ended in the loop with no signal sent ended by what
\* stream.read (not an overflow) or the engine call raised; with neither,
\* the loop is running.
C15_NoInternalTermination ==
    (InLoop /\ nsignals = 0 /\ Exited) =>
        /\ exitCode = {1}
        /\ pc \in {"read", "process"}
        /\ pc = "read" => lastRead = "error"

\* C15 witness: every frame the device delivered was read and reported, no
\* signal and no error, and the loop waits in the next read.
C15_Witness ==
    /\ InLoop /\ pc = "read" /\ frame = MaxFrames /\ nsignals = 0 /\ Alive
    /\ lastRead # "error"
    /\ \A f \in 1 .. MaxFrames : DetectedAt(f) # {}

\* C16: in the standalone listeners detection_count is the number of
\* wake_word_detected notifications made so far, plus one while the
\* notification just counted is being made.
C16_CountIsNotifications ==
    ~Structured =>
        detection_count =
            Cardinality(EventsOf("wake_word_detected"))
              + (IF pc = "emit_detected" THEN 1 ELSE 0)

\* C16 witness: a standalone listener reported a detection in every frame
\* and counted each.
C16_Witness ==
    /\ ~Structured /\ pc = "read" /\ frame = MaxFrames
    /\ detection_count = MaxFrames
    /\ Cardinality(EventsOf("wake_word_detected")) = MaxFrames

\* the [STATS] lines printed in minute m of the run
StatsOf(m) == {k \in EventsOf("stats") : Seconds(out[k].elapsed) \div StatsPeriod = m}

\* C17: in the standalone listeners each minute that has gone by (the
\* iteration that saw it is over) has exactly one [STATS] line, no minute
\* has two, each line has the count of the notifications before it and the
\* rate count / (elapsed / 3600), and none is printed in the first second.
C17_OncePerBoundary ==
    ~Structured =>
        /\ \A m \in 1 .. (Seconds(now) \div StatsPeriod) :
             /\ Cardinality(StatsOf(m)) <= 1
             /\ (pc = "read" \/ m < Seconds(now) \div StatsPeriod) =>
                  Cardinality(StatsOf(m)) = 1
        /\ \A k \in EventsOf("stats") :
             /\ Seconds(out[k].elapsed) >= 1
             /\ out[k].count =
                  Cardinality({j \in EventsOf("wake_word_detected") : j < k})
             /\ out[k].rate = << out[k].count * SecondsPerHour * TicksPerSecond,
                                 out[k].elapsed >>

====
